---- MODULE Spec2Model ----
(***************************************************************************)
(* Booking-field reconciliation of an event type:                          *)
(* ensureBookingInputsHaveSystemFields (getBookingFields.ts).              *)
(*                                                                         *)
(* A booking field is a record whose DOMAIN is the set of properties the   *)
(* field sets; an absent property is an absent key.  Lists are 1-based     *)
(* sequences, so findIndex's -1 ("not found") is 0 here.                   *)
(***************************************************************************)
EXTENDS Integers, Sequences, FiniteSets, TLC

VARIABLES
    args,        \* the arguments of the next / last call
    result,      \* what the last call returned: [ok, fields]
    prevResult,  \* what the call before the last one returned
    pc           \* "idle": a call is due; "returned": the call has returned

vars == <<args, result, prevResult, pc>>

(***************************************************************************)
(* Bounds of the enumerated inputs.                                        *)
(***************************************************************************)
MaxFields == 2
MaxCustomInputs == 2

(***************************************************************************)
(* Strings.                                                                *)
(***************************************************************************)
UpperChars == "ABCDEFGHIJKLMNOPQRSTUVWXYZ"
LowerChars == "abcdefghijklmnopqrstuvwxyz"
DigitChars == "0123456789"

CharIndex(alphabet, c) ==
    IF \E i \in 1..Len(alphabet) : SubSeq(alphabet, i, i) = c
    THEN CHOOSE i \in 1..Len(alphabet) : SubSeq(alphabet, i, i) = c
    ELSE 0

toLowerCaseChar(c) ==
    LET i == CharIndex(UpperChars, c)
    IN  IF i = 0 THEN c ELSE SubSeq(LowerChars, i, i)

toUpperCaseChar(c) ==
    LET i == CharIndex(LowerChars, c)
    IN  IF i = 0 THEN c ELSE SubSeq(UpperChars, i, i)

RECURSIVE toLowerCase(_)
toLowerCase(s) ==
    IF Len(s) = 0 THEN ""
    ELSE toLowerCaseChar(SubSeq(s, 1, 1)) \o toLowerCase(SubSeq(s, 2, Len(s)))

\* PHONE -> Phone
upperCaseToCamelCase(upperCaseString) ==
    toUpperCaseChar(SubSeq(upperCaseString, 1, 1))
        \o toLowerCase(SubSeq(upperCaseString, 2, Len(upperCaseString)))

IsSlugChar(c) ==
    \/ CharIndex(UpperChars, c) # 0
    \/ CharIndex(LowerChars, c) # 0
    \/ CharIndex(DigitChars, c) # 0
    \/ c = "-"

\* Every character that is not a letter, a digit or a dash becomes a dash;
\* the outcome is lower-cased.
RECURSIVE slugify(_)
slugify(str) ==
    IF Len(str) = 0 THEN ""
    ELSE LET c == SubSeq(str, 1, 1)
         IN  (IF IsSlugChar(c) THEN toLowerCaseChar(c) ELSE "-")
                 \o slugify(SubSeq(str, 2, Len(str)))


(***************************************************************************)
(* Constants of the module.                                                *)
(***************************************************************************)
SMS_REMINDER_NUMBER_FIELD == "smsReminderNumber"

\* The configuration registered for the field type "name" (its content is
\* fixed data: the first/last name split toggle and its variants).
NameFieldTypeConfig ==
    [variantsConfig |->
        [toggleLabel |-> "Split \"Full name\" into \"First name\" and \"Last name\"",
         variants |->
            [firstAndLastName |->
                [label |-> "First Name, Last Name",
                 fieldsMap |->
                    [firstName |-> [defaultLabel |-> "first_name",
                                    canChangeRequirability |-> FALSE],
                     lastName |-> [defaultLabel |-> "last_name",
                                   canChangeRequirability |-> TRUE]]],
             fullName |->
                [label |-> "your_name",
                 fieldsMap |->
                    [fullName |-> [defaultLabel |-> "your_name",
                                   defaultPlaceholder |-> "example_name",
                                   canChangeRequirability |-> FALSE]]]]]]

\* Partial map from field type to configuration: only "name" is registered.
FieldTypeConfigMap == [t \in {"name"} |-> NameFieldTypeConfig]

getSmsReminderNumberField ==
    [name |-> SMS_REMINDER_NUMBER_FIELD,
     type |-> "phone",
     defaultLabel |-> "number_sms_notifications",
     defaultPlaceholder |-> "enter_phone_number",
     editable |-> "system"]

getSmsReminderNumberSource(workflowId, isSmsReminderNumberRequired) ==
    [id |-> ToString(workflowId),
     type |-> "workflow",
     label |-> "Workflow",
     fieldRequired |-> isSmsReminderNumberRequired,
     editUrl |-> "/workflows/" \o ToString(workflowId)]

EventTypeCustomInputType == {"TEXT", "TEXTLONG", "NUMBER", "BOOL", "RADIO", "PHONE"}

SystemField ==
    {"name", "email", "location", "notes", "guests", "rescheduleReason",
     "smsReminderNumber"}

CustomInputTypeToFieldType(t) ==
    CASE t = "TEXT" -> "text"
      [] t = "TEXTLONG" -> "textarea"
      [] t = "NUMBER" -> "number"
      [] t = "BOOL" -> "boolean"
      [] t = "RADIO" -> "radio"
      [] t = "PHONE" -> "phone"

DefaultSources == <<[label |-> "Default", id |-> "default", type |-> "default"]>>

\* These fields should be added before other user fields
systemBeforeFields ==
    << [type |-> "name",
        name |-> "name",
        editable |-> "system",
        defaultLabel |-> "your_name",
        required |-> TRUE,
        variantsConfig |->
            [defaultVariant |-> "fullName",
             variants |->
                [firstAndLastName |->
                    [fields |->
                        << [name |-> "firstName", type |-> "text",
                            label |-> "First Name", required |-> TRUE],
                           [name |-> "lastName", type |-> "text",
                            label |-> "Last Name", required |-> FALSE] >>],
                 fullName |->
                    [fields |->
                        << [name |-> "fullName", type |-> "text",
                            label |-> "Your Name", required |-> TRUE] >>]]],
        sources |-> DefaultSources],
       [defaultLabel |-> "email_address",
        type |-> "email",
        name |-> "email",
        required |-> TRUE,
        editable |-> "system",
        sources |-> DefaultSources],
       [defaultLabel |-> "location",
        type |-> "radioInput",
        name |-> "location",
        editable |-> "system",
        hideWhenJustOneOption |-> TRUE,
        required |-> FALSE,
        getOptionsAt |-> "locations",
        optionsInputs |->
            [attendeeInPerson |->
                [type |-> "address", required |-> TRUE, placeholder |-> ""],
             phone |->
                [type |-> "phone", required |-> TRUE, placeholder |-> ""]],
        sources |-> DefaultSources] >>

\* Variant of systemAfterFields whose guests field ignores disableGuests.
systemAfterFields_GuestsShown(disableGuests, additionalNotesRequired) ==
    << [defaultLabel |-> "additional_notes",
        type |-> "textarea",
        name |-> "notes",
        editable |-> "system-but-optional",
        required |-> additionalNotesRequired,
        defaultPlaceholder |-> "share_additional_notes",
        sources |-> DefaultSources],
       [defaultLabel |-> "additional_guests",
        type |-> "multiemail",
        editable |-> "system-but-optional",
        name |-> "guests",
        required |-> FALSE,
        hidden |-> FALSE,
        sources |-> DefaultSources],
       [defaultLabel |-> "reschedule_reason",
        type |-> "textarea",
        editable |-> "system-but-optional",
        name |-> "rescheduleReason",
        defaultPlaceholder |-> "reschedule_placeholder",
        required |-> FALSE,
        views |-> << [id |-> "reschedule", label |-> "Reschedule View"] >>,
        sources |-> DefaultSources] >>

\* These fields should be added after other user fields
systemAfterFields(disableGuests, additionalNotesRequired) ==
    << [defaultLabel |-> "additional_notes",
        type |-> "textarea",
        name |-> "notes",
        editable |-> "system-but-optional",
        required |-> additionalNotesRequired,
        defaultPlaceholder |-> "share_additional_notes",
        sources |-> DefaultSources],
       [defaultLabel |-> "additional_guests",
        type |-> "multiemail",
        editable |-> "system-but-optional",
        name |-> "guests",
        required |-> FALSE,
        hidden |-> disableGuests,
        sources |-> DefaultSources],
       [defaultLabel |-> "reschedule_reason",
        type |-> "textarea",
        editable |-> "system-but-optional",
        name |-> "rescheduleReason",
        defaultPlaceholder |-> "reschedule_placeholder",
        required |-> FALSE,
        views |-> << [id |-> "reschedule", label |-> "Reschedule View"] >>,
        sources |-> DefaultSources] >>

(***************************************************************************)
(* Helpers of the list operations.                                         *)
(***************************************************************************)
\* bookingFields.findIndex((f) => f.name === n); 0 when there is none.
FindIndex(fields, n) ==
    IF \E i \in 1..Len(fields) : fields[i].name = n
    THEN CHOOSE i \in 1..Len(fields) :
            /\ fields[i].name = n
            /\ \A j \in 1..(i - 1) : fields[j].name # n
    ELSE 0

\* { ...field, ...existing }: the properties of both, existing's value on a
\* property both set.
SpreadMerge(field, existing) ==
    [k \in (DOMAIN field) \cup (DOMAIN existing) |->
        IF k \in DOMAIN existing THEN existing[k] ELSE field[k]]


\* !!step.numberRequired: an absent (null) numberRequired is false.
NumberRequired(step) ==
    IF "numberRequired" \in DOMAIN step THEN step.numberRequired ELSE FALSE

\* workflow.workflow.steps.forEach: one source per SMS_ATTENDEE step.
RECURSIVE StepSources(_, _)
StepSources(workflowId, steps) ==
    IF Len(steps) = 0 THEN << >>
    ELSE (IF Head(steps).action = "SMS_ATTENDEE"
          THEN << getSmsReminderNumberSource(workflowId, NumberRequired(Head(steps))) >>
          ELSE << >>)
             \o StepSources(workflowId, Tail(steps))

\* workflows.forEach: the sources of every workflow, in iteration order.
RECURSIVE smsNumberSources(_)
smsNumberSources(workflows) ==
    IF Len(workflows) = 0 THEN << >>
    ELSE StepSources(Head(workflows).workflow.id, Head(workflows).workflow.steps)
             \o smsNumberSources(Tail(workflows))

\* Variant of handleMigration that migrates on every call.
handleMigration_Always(bookingFields) == TRUE

\* If bookingFields is set already, the migration is done.
handleMigration(bookingFields) == Len(bookingFields) = 0

\* Variant of MergeSystemFields with the guard inverted: a system field the
\* list lacks is not queued, one it has is queued again.
RECURSIVE MergeSystemFields_InvertedGuard(_, _, _)
MergeSystemFields_InvertedGuard(systemFields, bookingFields, missing) ==
    IF Len(systemFields) = 0
    THEN [bookingFields |-> bookingFields, missing |-> missing]
    ELSE LET field == Head(systemFields)
         IN  IF FindIndex(bookingFields, field.name) # 0
             THEN MergeSystemFields_InvertedGuard(Tail(systemFields), bookingFields,
                                                  Append(missing, field))
             ELSE MergeSystemFields_InvertedGuard(Tail(systemFields), bookingFields,
                                                  missing)

\* Variant of MergeSystemFields with the spread reversed: { ...existing, ...field }.
RECURSIVE MergeSystemFields_CodeWins(_, _, _)
MergeSystemFields_CodeWins(systemFields, bookingFields, missing) ==
    IF Len(systemFields) = 0
    THEN [bookingFields |-> bookingFields, missing |-> missing]
    ELSE LET field == Head(systemFields)
             existingBookingFieldIndex == FindIndex(bookingFields, field.name)
         IN  IF existingBookingFieldIndex = 0
             THEN MergeSystemFields_CodeWins(Tail(systemFields), bookingFields,
                                             Append(missing, field))
             ELSE MergeSystemFields_CodeWins(
                      Tail(systemFields),
                      [bookingFields EXCEPT ![existingBookingFieldIndex] =
                          SpreadMerge(bookingFields[existingBookingFieldIndex], field)],
                      missing)

\* for (const field of systemFields): a system field the list lacks is queued,
\* one it has is merged in place, the list's properties winning.
RECURSIVE MergeSystemFields(_, _, _)
MergeSystemFields(systemFields, bookingFields, missing) ==
    IF Len(systemFields) = 0
    THEN [bookingFields |-> bookingFields, missing |-> missing]
    ELSE LET field == Head(systemFields)
             existingBookingFieldIndex == FindIndex(bookingFields, field.name)
         IN  IF existingBookingFieldIndex = 0
             THEN MergeSystemFields(Tail(systemFields), bookingFields,
                                    Append(missing, field))
             ELSE MergeSystemFields(
                      Tail(systemFields),
                      [bookingFields EXCEPT ![existingBookingFieldIndex] =
                          SpreadMerge(field, bookingFields[existingBookingFieldIndex])],
                      missing)

\* Variant of ConcatBeforeFields with the operands swapped.
ConcatBeforeFields_Appended(missingSystemBeforeFields, bookingFields) ==
    bookingFields \o missingSystemBeforeFields

\* bookingFields = missingSystemBeforeFields.concat(bookingFields)
ConcatBeforeFields(missingSystemBeforeFields, bookingFields) ==
    missingSystemBeforeFields \o bookingFields

\* Variant of SmsFieldInjected without the test on the list.
SmsFieldInjected_NoGuard(sources, bookingFields) == Len(sources) # 0

\* smsNumberSources.length && !bookingFields.find((f) => f.name !== SMS_REMINDER_NUMBER_FIELD)
SmsFieldInjected(sources, bookingFields) ==
    /\ Len(sources) # 0
    /\ ~ \E i \in 1..Len(bookingFields) :
            bookingFields[i].name # SMS_REMINDER_NUMBER_FIELD

\* bookingFields.splice(indexForLocation + 1, 0, smsField)
InjectSmsField(sources, bookingFields) ==
    IF SmsFieldInjected(sources, bookingFields)
    THEN LET indexForLocation == FindIndex(bookingFields, "location")
         IN  SubSeq(bookingFields, 1, indexForLocation)
                 \o << SpreadMerge(getSmsReminderNumberField, [sources |-> sources]) >>
                 \o SubSeq(bookingFields, indexForLocation + 1, Len(bookingFields))
    ELSE bookingFields

\* input.options.map((o) => ({ ...o, value: o.label }))
MapOptions(options) ==
    [i \in 1..Len(options) |->
        SpreadMerge(options[i], [value |-> options[i].label])]

\* The field pushed for the custom input at (1-based) position index.
MigratedField(input, index) ==
    [label |-> IF input.label # "" THEN input.label
               ELSE upperCaseToCamelCase(input.type),
     editable |-> "user",
     name |-> slugify(IF input.label # "" THEN input.label
                      ELSE input.type \o "-" \o ToString(index)),
     placeholder |-> input.placeholder,
     type |-> CustomInputTypeToFieldType(input.type),
     required |-> input.required,
     options |-> IF "options" \in DOMAIN input THEN MapOptions(input.options)
                 ELSE << >>]

\* Variant of MigrateCustomInputs that names by the 0-based index.
MigrateCustomInputs_ZeroBased(customInputs) ==
    [i \in 1..Len(customInputs) |-> MigratedField(customInputs[i], i - 1)]

\* customInputs.forEach((input, index) => bookingFields.push(...))
MigrateCustomInputs(customInputs) ==
    [i \in 1..Len(customInputs) |-> MigratedField(customInputs[i], i)]

\* .map: the configuration registered for the field's type, if any.
AttachFieldTypeConfig(field) ==
    IF field.type \in DOMAIN FieldTypeConfigMap
    THEN SpreadMerge(field, [fieldTypeConfig |-> FieldTypeConfigMap[field.type]])
    ELSE field

\* Variant of eventTypeBookingFieldsParse that accepts every list.
eventTypeBookingFieldsParse_NoDuplicateCheck(fields) ==
    [status |-> "ok", fields |-> fields]

\* eventTypeBookingFields.parse: a list with a duplicate name is rejected
\* (the call throws); every other list of the model is well-formed.
eventTypeBookingFieldsParse(fields) ==
    IF \A i, j \in 1..Len(fields) : fields[i].name = fields[j].name => i = j
    THEN [status |-> "ok", fields |-> fields]
    ELSE [status |-> "error", fields |-> << >>]

\* The list as it stands before the after-fields step (steps 1 to 5).
FieldsBeforeAfterStep(a) ==
    LET before == MergeSystemFields(systemBeforeFields, a.bookingFields, << >>)
        withBefore == ConcatBeforeFields(before.missing, before.bookingFields)
        withSms == InjectSmsField(smsNumberSources(a.workflows), withBefore)
    IN  IF handleMigration(a.bookingFields)
        THEN withSms \o MigrateCustomInputs(a.customInputs)
        ELSE withSms

ensureBookingInputsHaveSystemFields(a) ==
    LET after == MergeSystemFields(
                     systemAfterFields(a.disableGuests, a.additionalNotesRequired),
                     FieldsBeforeAfterStep(a), << >>)
        all == after.bookingFields \o after.missing
    IN  eventTypeBookingFieldsParse(
            [i \in 1..Len(all) |-> AttachFieldTypeConfig(all[i])])


(***************************************************************************)
(* The inputs of the calls.                                                *)
(***************************************************************************)
\* Stored booking fields an event type may hold: system fields the user has
\* customised, user fields, and an SMS reminder field stored earlier.
InputFieldPool ==
    { [name |-> "email", type |-> "email", editable |-> "system",
       required |-> FALSE, label |-> "Work email"],
      [name |-> "guests", type |-> "multiemail",
       editable |-> "system-but-optional", required |-> TRUE],
      [name |-> "guests", type |-> "multiemail",
       editable |-> "system-but-optional", required |-> FALSE, hidden |-> TRUE],
      [name |-> "company", type |-> "text", editable |-> "user",
       label |-> "Company", required |-> FALSE],
      [name |-> "mobile", type |-> "phone", editable |-> "user",
       label |-> "Mobile", required |-> TRUE, placeholder |-> "+1"],
      [name |-> SMS_REMINDER_NUMBER_FIELD, type |-> "phone",
       editable |-> "system", required |-> TRUE,
       sources |-> << getSmsReminderNumberSource(7, TRUE) >>] }

\* Legacy custom inputs: the labels "Notes" and "Name" slug to the names of
\* system fields, the empty label takes its name from type and position.
CustomInputPool ==
    { [label |-> "Company", type |-> "TEXT", required |-> TRUE,
       placeholder |-> ""],
      [label |-> "", type |-> "NUMBER", required |-> FALSE,
       placeholder |-> "0"],
      [label |-> "Notes", type |-> "TEXTLONG", required |-> FALSE,
       placeholder |-> ""],
      [label |-> "Name", type |-> "RADIO", required |-> TRUE,
       placeholder |-> "",
       options |-> << [label |-> "Ann Lee"], [label |-> " Bo"] >>] }

\* The workflows of an event type: none, one SMS step, no SMS step, and two
\* workflows with three steps of which two are SMS steps.
Workflow7 ==
    [workflow |-> [id |-> 7,
                   steps |-> << [action |-> "SMS_ATTENDEE",
                                 numberRequired |-> TRUE] >>]]
Workflow8 ==
    [workflow |-> [id |-> 8,
                   steps |-> << [action |-> "EMAIL_HOST"],
                                [action |-> "SMS_ATTENDEE"] >>]]
Workflow9 ==
    [workflow |-> [id |-> 9,
                   steps |-> << [action |-> "EMAIL_ATTENDEE"],
                                [action |-> "SMS_NUMBER",
                                 numberRequired |-> FALSE] >>]]

WorkflowLists ==
    { << >>, << Workflow7 >>, << Workflow9 >>, << Workflow8, Workflow7 >> }

\* The lists of at most n members of pool.
ListsUpTo(pool, n) == UNION { [1..k -> pool] : k \in 0..n }

UniqueNames(fields) ==
    \A i, j \in 1..Len(fields) : fields[i].name = fields[j].name => i = j

Args ==
    [bookingFields : { l \in ListsUpTo(InputFieldPool, MaxFields) : UniqueNames(l) },
     disableGuests : BOOLEAN,
     additionalNotesRequired : BOOLEAN,
     customInputs : ListsUpTo(CustomInputPool, MaxCustomInputs),
     workflows : WorkflowLists]

NoResult == [status |-> "none", fields |-> << >>]

(***************************************************************************)
(* The state machine: the caller calls the reconciler on the stored list,  *)
(* and may store the returned list, on which the next call then runs.      *)
(***************************************************************************)
Init ==
    /\ args \in Args
    /\ result = NoResult
    /\ prevResult = NoResult
    /\ pc = "idle"

Reconcile ==
    /\ pc = "idle"
    /\ result' = ensureBookingInputsHaveSystemFields(args)
    /\ prevResult' = result
    /\ pc' = "returned"
    /\ UNCHANGED args

Persist ==
    /\ pc = "returned"
    /\ result.status = "ok"
    /\ args' = [args EXCEPT !.bookingFields = result.fields]
    /\ pc' = "idle"
    /\ UNCHANGED <<result, prevResult>>

Next == Reconcile \/ Persist

Spec == Init /\ [][Next]_vars


(***************************************************************************)
(* Vocabulary of the properties.                                           *)
(***************************************************************************)
BeforeNames == {"name", "email", "location"}
AfterNames == {"notes", "guests", "rescheduleReason"}
MandatoryNames == BeforeNames \cup AfterNames

\* The last call returned a list (it did not throw).
Returned == pc = "returned" /\ result.status = "ok"

\* The list the last call was given, and the list it returned.
In == args.bookingFields
Out == result.fields

Count(fields, n) == Cardinality({ i \in 1..Len(fields) : fields[i].name = n })

Has(fields, n) == \E i \in 1..Len(fields) : fields[i].name = n

Named(fields, n) == fields[FindIndex(fields, n)]

HasSmsStep(workflows) ==
    \E i \in 1..Len(workflows) :
        \E j \in 1..Len(workflows[i].workflow.steps) :
            workflows[i].workflow.steps[j].action = "SMS_ATTENDEE"


(***************************************************************************)
(* C1.  Every list the reconciler returns contains exactly one field named *)
(* each of name, email, location, notes, guests and rescheduleReason.      *)
(***************************************************************************)
C1_ExactlyOneOfEachSystemField ==
    Returned => \A n \in MandatoryNames : Count(Out, n) = 1

\* A first call on a stored list that has some system fields and lacks others.
C1_Witness ==
    /\ Returned
    /\ prevResult.status = "none"
    /\ Has(In, "email") /\ Has(In, "guests") /\ ~ Has(In, "name")
    /\ \A n \in MandatoryNames : Count(Out, n) = 1

(***************************************************************************)
(* C2.  The returned list contains a field named smsReminderNumber if and  *)
(* only if some step of some supplied workflow has action SMS_ATTENDEE.    *)
(***************************************************************************)
C2_SmsFieldIffSmsStep ==
    Returned => (Has(Out, SMS_REMINDER_NUMBER_FIELD) <=> HasSmsStep(args.workflows))

(***************************************************************************)
(* C3.  Given workflows with an SMS_ATTENDEE step and an input list        *)
(* without an smsReminderNumber field, the output has that field right     *)
(* after location, its sources one entry per SMS_ATTENDEE step in          *)
(* workflow/step order, each with the workflow id as a string, type        *)
(* "workflow" and fieldRequired the step's numberRequired.                 *)
(***************************************************************************)
C3_SmsFieldAfterLocationWithSources ==
    (/\ Returned
     /\ HasSmsStep(args.workflows)
     /\ ~ Has(In, SMS_REMINDER_NUMBER_FIELD))
    => /\ Has(Out, SMS_REMINDER_NUMBER_FIELD)
       /\ FindIndex(Out, SMS_REMINDER_NUMBER_FIELD) = FindIndex(Out, "location") + 1
       /\ LET sources == Named(Out, SMS_REMINDER_NUMBER_FIELD).sources
              steps == smsNumberSources(args.workflows)
          IN  /\ Len(sources) = Len(steps)
              /\ \A i \in 1..Len(steps) :
                    /\ sources[i].id = steps[i].id
                    /\ sources[i].type = "workflow"
                    /\ sources[i].fieldRequired = steps[i].fieldRequired

(***************************************************************************)
(* C4.  Idempotence on the non-migration path: a second call, on the list  *)
(* a first call returned and with the same flags, custom inputs and        *)
(* workflows, returns that list again: the same fields in the same order   *)
(* with the same properties.                                               *)
(***************************************************************************)
C4_SecondCallReturnsTheSameList ==
    (pc = "returned" /\ prevResult.status = "ok") => result = prevResult

\* A second call on a list that a migrating first call built from custom
\* inputs, with SMS workflows supplied to both calls.
C4_Witness ==
    /\ Returned
    /\ prevResult.status = "ok"
    /\ Len(args.customInputs) = 2
    /\ HasSmsStep(args.workflows)
    /\ Has(prevResult.fields, "company")
    /\ Len(Out) = 8
    /\ result = prevResult

\* The code's default for the system field named n, under the call's flags.
SystemDefaults(n) ==
    LET all == systemBeforeFields
                   \o systemAfterFields(args.disableGuests, args.additionalNotesRequired)
    IN  Named(all, n)

(***************************************************************************)
(* C5.  Existing-wins merge: a system field of the input list keeps, in    *)
(* the output, the value of every property it sets; the properties it      *)
(* does not set are filled from the code's defaults.                       *)
(***************************************************************************)
C5_ExistingWinsMerge ==
    Returned =>
        \A i \in 1..Len(In) :
            In[i].name \in MandatoryNames =>
                /\ Count(Out, In[i].name) = 1
                /\ LET f == Named(Out, In[i].name)
                       d == SystemDefaults(In[i].name)
                   IN  /\ \A k \in DOMAIN In[i] :
                            k \in DOMAIN f /\ f[k] = In[i][k]
                       /\ \A k \in (DOMAIN f) \ (DOMAIN In[i]) :
                            \/ k \in DOMAIN d /\ f[k] = d[k]
                            \/ /\ k = "fieldTypeConfig"
                               /\ f.type \in DOMAIN FieldTypeConfigMap
                               /\ f[k] = FieldTypeConfigMap[f.type]

\* The stored email field sets required: false; the output keeps it and
\* takes sources, which the stored field lacks, from the default.
C5_Witness ==
    /\ Returned
    /\ prevResult.status = "none"
    /\ Has(In, "email")
    /\ Named(In, "email").required = FALSE
    /\ "sources" \notin DOMAIN Named(In, "email")
    /\ Named(Out, "email").required = FALSE
    /\ Named(Out, "email").label = "Work email"
    /\ Named(Out, "email").sources = DefaultSources


(***************************************************************************)
(* C6, as stated.  For all inputs the guests field of the output has       *)
(* hidden equal to the disableGuests argument of the call.                 *)
(***************************************************************************)
C6_GuestsHiddenIsDisableGuests ==
    Returned => /\ "hidden" \in DOMAIN Named(Out, "guests")
                /\ Named(Out, "guests").hidden = args.disableGuests

\* The input list has a guests field that sets hidden.
InputSetsGuestsHidden ==
    \E i \in 1..Len(In) : In[i].name = "guests" /\ "hidden" \in DOMAIN In[i]

(***************************************************************************)
(* C6, amended.  When the input list has no guests field that sets hidden, *)
(* the guests field of the output has hidden equal to the disableGuests    *)
(* argument of the call; a guests field of the input that sets hidden      *)
(* keeps its own value.                                                    *)
(***************************************************************************)
C6_GuestsHiddenDefaultsToDisableGuests ==
    Returned =>
        /\ "hidden" \in DOMAIN Named(Out, "guests")
        /\ Named(Out, "guests").hidden =
              IF InputSetsGuestsHidden THEN Named(In, "guests").hidden
              ELSE args.disableGuests

\* disableGuests is true, the stored guests field does not set hidden, and
\* the output's guests field is hidden.
C6_Witness ==
    /\ Returned
    /\ args.disableGuests
    /\ Has(In, "guests")
    /\ ~ InputSetsGuestsHidden
    /\ Named(Out, "guests").hidden = TRUE
    /\ Named(Out, "guests").required = TRUE

\* The list as it stands when the after-fields step starts.
BeforeAfterStep == FieldsBeforeAfterStep(args)

(***************************************************************************)
(* C7, as stated.  Every "before" system field (name, email, location) is  *)
(* ahead of every field that is not one, and every "after" system field    *)
(* (notes, guests, rescheduleReason) is after every field that was in the  *)
(* list before the after-fields step ran.                                  *)
(***************************************************************************)
C7_SystemFieldsFirstAndLast ==
    Returned =>
        /\ \A i, j \in 1..Len(Out) :
              (Out[i].name \in BeforeNames /\ Out[j].name \notin BeforeNames) => i < j
        /\ \A i \in 1..Len(Out) :
              Out[i].name \in AfterNames => i > Len(BeforeAfterStep)

\* The names of a list, in order.
Names(fields) == [i \in 1..Len(fields) |-> fields[i].name]

IsBeforeName(n) == n \in BeforeNames
IsAfterName(n) == n \in AfterNames

\* The system fields a list lacks, in the code's fixed order.
MissingBefore(fields) ==
    SelectSeq(<<"name", "email", "location">>, LAMBDA n : ~ Has(fields, n))
MissingAfter(fields) ==
    SelectSeq(<<"notes", "guests", "rescheduleReason">>, LAMBDA n : ~ Has(fields, n))

(***************************************************************************)
(* C7, amended.  The "before" system fields that the input list lacks are  *)
(* the head of the output, in the order name, email, location, ahead of    *)
(* every field of the input list; the "after" system fields that are not   *)
(* in the list when the after-fields step starts are the tail of the       *)
(* output, in the order notes, guests, rescheduleReason, after every field *)
(* that was in the list before that step.  A system field that is already  *)
(* in the list keeps its position.                                         *)
(***************************************************************************)
C7_InsertedSystemFieldsFirstAndLast ==
    Returned =>
        LET head == MissingBefore(In)
            tail == MissingAfter(BeforeAfterStep)
        IN  /\ Len(Out) = Len(BeforeAfterStep) + Len(tail)
            /\ SubSeq(Names(Out), 1, Len(head)) = head
            /\ \A i \in 1..Len(In) : FindIndex(Out, In[i].name) > Len(head)
            /\ SelectSeq(Names(Out), LAMBDA n : Has(In, n)) = Names(In)
            /\ SubSeq(Names(Out), 1, Len(BeforeAfterStep)) = Names(BeforeAfterStep)
            /\ SubSeq(Names(Out), Len(BeforeAfterStep) + 1, Len(Out)) = tail

\* The stored list is company, email: name and location go ahead of company,
\* email stays behind it, and the three after fields close the list.
C7_Witness ==
    /\ Returned
    /\ Names(In) = <<"company", "email">>
    /\ Names(Out) = <<"name", "location", "company", "email",
                      "notes", "guests", "rescheduleReason">>

\* The fixed table from custom input type to field type.
C8_TypeTable ==
    [TEXT |-> "text", TEXTLONG |-> "textarea", NUMBER |-> "number",
     BOOL |-> "boolean", RADIO |-> "radio", PHONE |-> "phone"]

(***************************************************************************)
(* C8.  Legacy migration: on an empty input list, for the custom input at  *)
(* 1-based position i the output contains a field with editable "user",    *)
(* the type of the fixed table, and the name slugify(label), or            *)
(* slugify("<type>-<i>") when the label is empty.                          *)
(***************************************************************************)
C8_CustomInputsMigrated ==
    (Returned /\ Len(In) = 0) =>
        \A i \in 1..Len(args.customInputs) :
            LET input == args.customInputs[i]
                slug == IF input.label = ""
                        THEN slugify(input.type \o "-" \o ToString(i))
                        ELSE slugify(input.label)
            IN  \E j \in 1..Len(Out) :
                    /\ Out[j].name = slug
                    /\ Out[j].editable = "user"
                    /\ Out[j].type = C8_TypeTable[input.type]

\* The custom inputs Company (TEXT) and an unlabelled NUMBER become the user
\* fields company and number-2.
C8_Witness ==
    /\ Returned
    /\ Len(In) = 0
    /\ Len(args.customInputs) = 2
    /\ args.customInputs[1].label = "Company"
    /\ args.customInputs[2].label = "" /\ args.customInputs[2].type = "NUMBER"
    /\ Has(Out, "company") /\ Has(Out, "number-2")
    /\ Named(Out, "company").editable = "user"
    /\ Named(Out, "company").type = "text"
    /\ Named(Out, "number-2").editable = "user"
    /\ Named(Out, "number-2").type = "number"
    /\ Named(Out, "number-2").label = "Number"

UserFields(fields) == SelectSeq(fields, LAMBDA f : f.name \notin SystemField)

(***************************************************************************)
(* C10.  Migration is gated on the list being empty on entry: on a         *)
(* non-empty input list the custom inputs contribute no field, and the     *)
(* input fields whose name is not a system field name appear in the        *)
(* output exactly once, in their input order, with their input properties  *)
(* unchanged.                                                              *)
(***************************************************************************)
C10_NoMigrationOnNonEmptyList ==
    (Returned /\ Len(In) > 0) =>
        /\ UserFields(Out) = UserFields(In)
        /\ Len(Out) = Len(In) + Cardinality({ n \in MandatoryNames : ~ Has(In, n) })
        /\ \A j \in 1..Len(Out) : Out[j].name \in MandatoryNames \/ Has(In, Out[j].name)

\* A first call on the stored list mobile, company with two custom inputs.
C10_Witness ==
    /\ Returned
    /\ prevResult.status = "none"
    /\ Names(In) = <<"mobile", "company">>
    /\ Len(args.customInputs) = 2
    /\ args.customInputs[1].label = "Company"
    /\ UserFields(Out) = In
    /\ Len(Out) = 8

====
